---- MODULE Spec2Model ----
(***************************************************************************)
(* Model of src/visit.rs: the recursive walk of a rustdoc item that calls  *)
(* Visitor::visit_path for every Path and Visitor::visit_use for a Use.     *)
(*                                                                          *)
(* The call stack of the recursive descent is the variable `stack`: a       *)
(* frame [fn, pos] is a pending call of walker `fn` on the node found at    *)
(* position `pos` of the root item.  One action executes one function: it  *)
(* pops that function's frame and pushes, in program order, the calls the   *)
(* function body makes.  The body of every walker is an operator of the     *)
(* same name that returns this ordered sequence of calls.                   *)
(***************************************************************************)
EXTENDS Integers, Sequences, FiniteSets, TLC

VARIABLES root, stack, calls, status

vars == <<root, stack, calls, status>>

(* Bounds of the input universe. *)
MaxDepth == 1
MaxLen == 2

-----------------------------------------------------------------------------
(* rustdoc_types values.  Every struct and enum value is a record with a   *)
(* `tag` (struct name or variant name); a Vec is a sequence; Option is     *)
(* None / Some(val).  Fields the walkers ignore and that hold no node are  *)
(* left out, except the identifiers (id, items, impls).                   *)

None == [tag |-> "None"]
Some(x) == [tag |-> "Some", val |-> x]

Path(name, id, args) == [tag |-> "Path", path |-> name, id |-> id, args |-> args]

(* keys whose value is a scalar or a list of scalars: no node below them *)
ScalarKeys == {"tag", "path", "id", "name", "items", "impls", "source", "is_glob"}

(* keys whose value is a Vec of nodes *)
ListKeys == {"traits", "generic_params", "inputs", "params", "where_predicates",
             "bounds", "constraints", "vals"}

(* `args` is a Vec in GenericArgs::AngleBracketed and an Option elsewhere *)
IsList(n, key) == key \in ListKeys \/ (key = "args" /\ n.tag = "AngleBracketed")

IdxKey(i) == ToString(i)

Idx(s) == CHOOSE i \in 1..(MaxLen + 1) : IdxKey(i) = s

(* the node at position pos below node n *)
RECURSIVE At(_, _)
At(n, pos) ==
    IF pos = <<>> THEN n
    ELSE IF IsList(n, Head(pos))
         THEN At(n[Head(pos)][Idx(pos[2])], Tail(Tail(pos)))
    ELSE At(n[Head(pos)], Tail(pos))

-----------------------------------------------------------------------------
(* A pending call. *)
Call(fn, pos) == [fn |-> fn, pos |-> pos]

(* for x in list { fn(x, v) }, the list being the field `key` of the node at pos *)
ForEach(fn, list, pos, key) ==
    [i \in 1..Len(list) |-> Call(fn, pos \o <<key, IdxKey(i)>>)]

(* if let Some(x) = opt { fn(x, v) }, opt being the field `key` of the node at pos *)
IfSome(fn, opt, pos, key) ==
    IF opt.tag = "Some" THEN <<Call(fn, pos \o <<key, "val">>)>> ELSE <<>>

-----------------------------------------------------------------------------
(* The walkers: the ordered calls each function body makes. *)

visit_item(item, pos) ==
    LET inner == item.inner
        p == pos \o <<"inner">>
    IN CASE inner.tag = "Function" -> <<Call("visit_function", p \o <<"val">>)>>
         [] inner.tag = "Struct" -> <<Call("visit_struct", p \o <<"val">>)>>
         [] inner.tag = "StructField" -> <<Call("visit_type", p \o <<"val">>)>>
         [] inner.tag = "AssocType" ->
                <<Call("visit_generics", p \o <<"generics">>)>>
                \o ForEach("visit_generic_bound", inner.bounds, p, "bounds")
                \o IfSome("visit_type", inner.type_, p, "type_")
         [] inner.tag = "AssocConst" -> <<Call("visit_type", p \o <<"type_">>)>>
         [] inner.tag = "Impl" -> <<Call("visit_impl", p \o <<"val">>)>>
         [] inner.tag = "TypeAlias" -> <<Call("visit_type_alias", p \o <<"val">>)>>
         [] inner.tag = "Union" -> <<Call("visit_union", p \o <<"val">>)>>
         [] inner.tag = "Enum" -> <<Call("visit_enum", p \o <<"val">>)>>
         [] inner.tag = "Trait" -> <<Call("visit_trait", p \o <<"val">>)>>
         [] inner.tag = "TraitAlias" -> <<Call("visit_trait_alias", p \o <<"val">>)>>
         [] inner.tag = "Constant" -> <<Call("visit_type", p \o <<"type_">>)>>
         [] inner.tag = "Static" -> <<Call("visit_static", p \o <<"val">>)>>
         [] inner.tag = "Use" -> <<Call("Visitor::visit_use", p \o <<"val">>)>>
         [] inner.tag = "Module" -> <<>>
         [] inner.tag = "Variant" -> <<>>
         [] inner.tag = "ExternCrate" -> <<>>
         [] inner.tag = "ExternType" -> <<Call("todo!", p)>>
         [] inner.tag = "Primitive" -> <<>>
         [] inner.tag = "ProcMacro" -> <<>>
         [] inner.tag = "Macro" -> <<>>

visit_static(static_, pos) == <<Call("visit_type", pos \o <<"type_">>)>>

visit_trait_alias(trait_alias, pos) ==
    <<Call("visit_generics", pos \o <<"generics">>)>>
    \o ForEach("visit_generic_bound", trait_alias.params, pos, "params")

visit_trait(trait_, pos) ==
    <<Call("visit_generics", pos \o <<"generics">>)>>
    \o ForEach("visit_generic_bound", trait_.bounds, pos, "bounds")

visit_enum(enum_, pos) == <<Call("visit_generics", pos \o <<"generics">>)>>

visit_union(union, pos) == <<Call("visit_generics", pos \o <<"generics">>)>>

(* faulty variant: the blanket_impl check is missing *)
visit_impl_no_blanket_check(impl_, pos) ==
    <<Call("visit_generics", pos \o <<"generics">>)>>
    \o IfSome("visit_path", impl_.trait_, pos, "trait_")
    \o <<Call("visit_type", pos \o <<"for_">>)>>

(* faulty variant: the generics are not walked *)
visit_impl_skip_generics(impl_, pos) ==
    IF impl_.blanket_impl.tag = "Some" THEN <<>>
    ELSE IfSome("visit_path", impl_.trait_, pos, "trait_")
         \o <<Call("visit_type", pos \o <<"for_">>)>>

visit_impl(impl_, pos) ==
    IF impl_.blanket_impl.tag = "Some" THEN <<>>
    ELSE <<Call("visit_generics", pos \o <<"generics">>)>>
         \o IfSome("visit_path", impl_.trait_, pos, "trait_")
         \o <<Call("visit_type", pos \o <<"for_">>)>>

visit_type_alias(type_alias, pos) ==
    <<Call("visit_type", pos \o <<"type_">>),
      Call("visit_generics", pos \o <<"generics">>)>>

visit_struct(struct_, pos) ==
    <<Call("visit_struct_kind", pos \o <<"kind">>),
      Call("visit_generics", pos \o <<"generics">>)>>

visit_struct_kind(kind, pos) ==
    CASE kind.tag = "Unit" -> <<>>
      [] kind.tag = "Tuple" -> <<>>
      [] kind.tag = "Plain" -> <<>>

visit_function(fun, pos) ==
    <<Call("visit_fn_sig", pos \o <<"sig">>),
      Call("visit_generics", pos \o <<"generics">>)>>

(* faulty variant: the output is walked before the inputs *)
visit_fn_sig_output_first(decl, pos) ==
    IfSome("visit_type", decl.output, pos, "output")
    \o [i \in 1..Len(decl.inputs) |->
            Call("visit_type", pos \o <<"inputs", IdxKey(i), "ty">>)]

visit_fn_sig(decl, pos) ==
    [i \in 1..Len(decl.inputs) |->
        Call("visit_type", pos \o <<"inputs", IdxKey(i), "ty">>)]
    \o IfSome("visit_type", decl.output, pos, "output")

visit_generics(generics, pos) ==
    ForEach("visit_generic_param_def", generics.params, pos, "params")
    \o ForEach("visit_where_predicate", generics.where_predicates, pos, "where_predicates")

visit_generic_param_def(param, pos) ==
    <<Call("visit_generic_param_def_kind", pos \o <<"kind">>)>>

visit_where_predicate(where_predicate, pos) ==
    CASE where_predicate.tag = "BoundPredicate" ->
            <<Call("visit_type", pos \o <<"type_">>)>>
            \o ForEach("visit_generic_bound", where_predicate.bounds, pos, "bounds")
            \o ForEach("visit_generic_param_def", where_predicate.generic_params,
                       pos, "generic_params")
      [] where_predicate.tag = "EqPredicate" ->
            <<Call("visit_type", pos \o <<"lhs">>),
              Call("visit_term", pos \o <<"rhs">>)>>
      [] where_predicate.tag = "LifetimePredicate" -> <<>>

(* faulty variant: the type of a const parameter is not walked *)
visit_generic_param_def_kind_skip_const(kind, pos) ==
    CASE kind.tag = "Lifetime" -> <<>>
      [] kind.tag = "Type" ->
            ForEach("visit_generic_bound", kind.bounds, pos, "bounds")
            \o IfSome("visit_type", kind.default, pos, "default")
      [] kind.tag = "Const" -> <<>>

visit_generic_param_def_kind(kind, pos) ==
    CASE kind.tag = "Lifetime" -> <<>>
      [] kind.tag = "Type" ->
            ForEach("visit_generic_bound", kind.bounds, pos, "bounds")
            \o IfSome("visit_type", kind.default, pos, "default")
      [] kind.tag = "Const" -> <<Call("visit_type", pos \o <<"type_">>)>>

visit_generic_bound(bound, pos) ==
    CASE bound.tag = "TraitBound" ->
            <<Call("visit_path", pos \o <<"trait_">>)>>
            \o ForEach("visit_generic_param_def", bound.generic_params,
                       pos, "generic_params")
      [] bound.tag = "Outlives" -> <<>>
      [] bound.tag = "Use" -> <<>>

visit_term(term, pos) ==
    CASE term.tag = "Type" -> <<Call("visit_type", pos \o <<"val">>)>>
      [] term.tag = "Constant" -> <<>>

(* faulty variant: the generic arguments are walked before the hook is called *)
visit_path_post_order(path, pos) ==
    IfSome("visit_generic_args", path.args, pos, "args")
    \o <<Call("Visitor::visit_path", pos)>>

visit_path(path, pos) ==
    <<Call("Visitor::visit_path", pos)>>
    \o IfSome("visit_generic_args", path.args, pos, "args")

visit_generic_args(args, pos) ==
    CASE args.tag = "AngleBracketed" ->
            ForEach("visit_generic_arg", args.args, pos, "args")
            \o ForEach("visit_assoc_item_constraint", args.constraints,
                       pos, "constraints")
      [] args.tag = "Parenthesized" ->
            ForEach("visit_type", args.inputs, pos, "inputs")
            \o IfSome("visit_type", args.output, pos, "output")
      [] args.tag = "ReturnTypeNotation" -> <<>>

visit_assoc_item_constraint(binding, pos) ==
    IfSome("visit_generic_args", binding.args, pos, "args")
    \o <<Call("visit_assoc_item_constraint_kind", pos \o <<"binding">>)>>

visit_assoc_item_constraint_kind(binding, pos) ==
    CASE binding.tag = "Equality" -> <<Call("visit_term", pos \o <<"val">>)>>
      [] binding.tag = "Constraint" ->
            ForEach("visit_generic_bound", binding.vals, pos, "vals")

(* faulty variant: a type argument is not walked *)
visit_generic_arg_skip_type(arg, pos) == <<>>

visit_generic_arg(arg, pos) ==
    CASE arg.tag = "Lifetime" -> <<>>
      [] arg.tag = "Type" -> <<Call("visit_type", pos \o <<"val">>)>>
      [] arg.tag = "Const" -> <<>>
      [] arg.tag = "Infer" -> <<>>

visit_type(type_, pos) ==
    CASE type_.tag = "ResolvedPath" -> <<Call("visit_path", pos \o <<"val">>)>>
      [] type_.tag = "DynTrait" -> <<Call("visit_dyn_trait", pos \o <<"val">>)>>
      [] type_.tag = "Generic" -> <<>>
      [] type_.tag = "Primitive" -> <<>>
      [] type_.tag = "FunctionPointer" ->
            <<Call("visit_function_pointer", pos \o <<"val">>)>>
      [] type_.tag = "Tuple" -> ForEach("visit_type", type_.vals, pos, "vals")
      [] type_.tag = "Slice" -> <<Call("visit_type", pos \o <<"val">>)>>
      [] type_.tag = "Array" -> <<Call("visit_type", pos \o <<"type_">>)>>
      [] type_.tag = "ImplTrait" ->
            ForEach("visit_generic_bound", type_.vals, pos, "vals")
      [] type_.tag = "Infer" -> <<>>
      [] type_.tag = "RawPointer" -> <<Call("visit_type", pos \o <<"type_">>)>>
      [] type_.tag = "BorrowedRef" -> <<Call("visit_type", pos \o <<"type_">>)>>
      [] type_.tag = "QualifiedPath" ->
            IfSome("visit_generic_args", type_.args, pos, "args")
            \o <<Call("visit_type", pos \o <<"self_type">>)>>
            \o IfSome("visit_path", type_.trait_, pos, "trait_")
      [] type_.tag = "Pat" -> <<Call("visit_type", pos \o <<"type_">>)>>

visit_function_pointer(fn_pointer, pos) ==
    <<Call("visit_fn_sig", pos \o <<"sig">>)>>
    \o ForEach("visit_generic_param_def", fn_pointer.generic_params,
               pos, "generic_params")

visit_dyn_trait(dyn_trait, pos) ==
    ForEach("visit_poly_trait", dyn_trait.traits, pos, "traits")

visit_poly_trait(trait_, pos) ==
    <<Call("visit_path", pos \o <<"trait_">>)>>
    \o ForEach("visit_generic_param_def", trait_.generic_params,
               pos, "generic_params")

-----------------------------------------------------------------------------
(* The input universe: items built from the rustdoc_types constructors.   *)

Item(inner) == [tag |-> "Item", id |-> 0, inner |-> inner]

Generic == [tag |-> "Generic"]
Primitive == [tag |-> "Primitive"]
Infer == [tag |-> "Infer"]
ResolvedPath(p) == [tag |-> "ResolvedPath", val |-> p]
DynTrait(ts) == [tag |-> "DynTrait", val |-> [tag |-> "DynTrait", traits |-> ts]]
PolyTrait(p, gps) == [tag |-> "PolyTrait", trait_ |-> p, generic_params |-> gps]
FunctionSignature(ins, out) ==
    [tag |-> "FunctionSignature",
     inputs |-> [i \in 1..Len(ins) |-> [tag |-> "(String, Type)", name |-> "x", ty |-> ins[i]]],
     output |-> out]
FunctionPointer(sig, gps) ==
    [tag |-> "FunctionPointer",
     val |-> [tag |-> "FunctionPointer", sig |-> sig, generic_params |-> gps]]
Tuple(ts) == [tag |-> "Tuple", vals |-> ts]
Slice(t) == [tag |-> "Slice", val |-> t]
Array(t) == [tag |-> "Array", type_ |-> t]
ImplTrait(bs) == [tag |-> "ImplTrait", vals |-> bs]
RawPointer(t) == [tag |-> "RawPointer", type_ |-> t]
BorrowedRef(t) == [tag |-> "BorrowedRef", type_ |-> t]
QualifiedPath(args, self, tr) ==
    [tag |-> "QualifiedPath", name |-> "Item", args |-> args, self_type |-> self, trait_ |-> tr]
Pat(t) == [tag |-> "Pat", type_ |-> t]

AngleBracketed(args, cs) == [tag |-> "AngleBracketed", args |-> args, constraints |-> cs]
Parenthesized(ins, out) == [tag |-> "Parenthesized", inputs |-> ins, output |-> out]
ReturnTypeNotation == [tag |-> "ReturnTypeNotation"]

ArgLifetime == [tag |-> "Lifetime"]
ArgType(t) == [tag |-> "Type", val |-> t]
ArgConst == [tag |-> "Const"]
ArgInfer == [tag |-> "Infer"]

TermType(t) == [tag |-> "Type", val |-> t]
TermConstant == [tag |-> "Constant"]

AssocItemConstraint(args, binding) ==
    [tag |-> "AssocItemConstraint", name |-> "Item", args |-> args, binding |-> binding]
Equality(term) == [tag |-> "Equality", val |-> term]
Constraint(bs) == [tag |-> "Constraint", vals |-> bs]

TraitBound(p, gps) == [tag |-> "TraitBound", trait_ |-> p, generic_params |-> gps]
Outlives == [tag |-> "Outlives"]
UseBound == [tag |-> "Use"]

GenericParamDef(kind) == [tag |-> "GenericParamDef", name |-> "T", kind |-> kind]
KindLifetime == [tag |-> "Lifetime"]
KindType(bs, default) == [tag |-> "Type", bounds |-> bs, default |-> default]
KindConst(t) == [tag |-> "Const", type_ |-> t]

BoundPredicate(t, bs, gps) ==
    [tag |-> "BoundPredicate", type_ |-> t, bounds |-> bs, generic_params |-> gps]
EqPredicate(lhs, rhs) == [tag |-> "EqPredicate", lhs |-> lhs, rhs |-> rhs]
LifetimePredicate == [tag |-> "LifetimePredicate"]

Generics(ps, ws) == [tag |-> "Generics", params |-> ps, where_predicates |-> ws]

(* Lists of at most MaxLen elements: the empty list, every singleton of E, *)
(* and for each longer length the list alternating the two elements of S.  *)
Lists(E, S) ==
    {<<>>} \cup {<<e>> : e \in E}
    \cup {[i \in 1..n |-> S[((i - 1) % 2) + 1]] : n \in 2..MaxLen}

PA == Path("A", 1, None)
PB == Path("B", 2, None)
(* A<B> *)
PAB == Path("A", 1, Some(AngleBracketed(<<ArgType(ResolvedPath(PB))>>, <<>>)))

SmallTypes == <<ResolvedPath(PAB), ResolvedPath(PB)>>
SmallBounds == <<TraitBound(PB, <<>>), Outlives>>
SmallParams == <<GenericParamDef(KindType(<<TraitBound(PA, <<>>)>>, None)),
                 GenericParamDef(KindLifetime)>>
SmallArgs == <<ArgType(ResolvedPath(PB)), ArgLifetime>>
SmallConstraints ==
    <<AssocItemConstraint(Some(ReturnTypeNotation), Constraint(<<TraitBound(PB, <<>>)>>)),
      AssocItemConstraint(None, Equality(TermConstant))>>
SmallPolyTraits == <<PolyTrait(PA, <<>>), PolyTrait(PB, <<GenericParamDef(KindLifetime)>>)>>
SmallPreds == <<BoundPredicate(Generic, <<TraitBound(PA, <<>>)>>, <<>>),
                LifetimePredicate>>

Range(f) == {f[i] : i \in DOMAIN f}

RECURSIVE TypesAt(_), PathsAt(_), GenericArgsAt(_), ConstraintsAt(_)

(* the depth of the types put where the deepest ones would only repeat *)
Shallow(d) == IF d > 0 THEN 0 ELSE d - 1

TermsAt(d) == {TermConstant} \cup {TermType(t) : t \in TypesAt(d - 1)}

GenericArgAt(d) ==
    {ArgLifetime, ArgConst, ArgInfer} \cup {ArgType(t) : t \in TypesAt(d - 1)}

BoundsAt(d) ==
    {Outlives, UseBound}
    \cup {TraitBound(p, <<>>) : p \in PathsAt(d)}
    \cup {TraitBound(PA, gps) : gps \in Lists({}, SmallParams)}

TypesAt(d) ==
    IF d < 0 THEN {}
    ELSE LET sub == TypesAt(d - 1)
             low == TypesAt(Shallow(d))
         IN
         {Generic, Primitive, Infer}
         \cup {ResolvedPath(p) : p \in PathsAt(d)}
         \cup {DynTrait(ts) : ts \in Lists(Range(SmallPolyTraits), SmallPolyTraits)}
         \cup {FunctionPointer(FunctionSignature(ins, None), <<>>) :
                    ins \in Lists(low, SmallTypes)}
         \cup {FunctionPointer(FunctionSignature(<<Primitive>>, Some(t)), gps) :
                    t \in {ResolvedPath(PAB)}, gps \in Lists({}, SmallParams)}
         \cup {Tuple(ts) : ts \in Lists(sub, SmallTypes)}
         \cup {Slice(t) : t \in low}
         \cup {Array(t) : t \in {ResolvedPath(PAB)}}
         \cup {ImplTrait(bs) : bs \in Lists(BoundsAt(-1), SmallBounds)}
         \cup {RawPointer(t) : t \in {ResolvedPath(PAB)}}
         \cup {BorrowedRef(t) : t \in {ResolvedPath(PAB)}}
         \cup {QualifiedPath(None, t, None) : t \in low}
         \cup {QualifiedPath(Some(AngleBracketed(<<ArgType(ResolvedPath(PB))>>, <<>>)),
                              ResolvedPath(PAB), Some(PAB))}
         \cup {Pat(t) : t \in {ResolvedPath(PAB)}}

PathsAt(d) ==
    IF d < 0 THEN {}
    ELSE {PA} \cup {Path("A", 1, Some(ga)) : ga \in GenericArgsAt(d)}

GenericArgsAt(d) ==
    IF d < 0 THEN {}
    ELSE LET sub == TypesAt(d - 1)
             low == TypesAt(Shallow(d))
         IN
         {ReturnTypeNotation}
         \cup {AngleBracketed(as, <<>>) : as \in Lists(GenericArgAt(d), SmallArgs)}
         \cup {AngleBracketed(<<>>, cs) : cs \in Lists(ConstraintsAt(d), SmallConstraints)}
         \cup {AngleBracketed(SmallArgs, SmallConstraints)}
         \cup {Parenthesized(ins, None) : ins \in Lists(low, SmallTypes)}
         \cup {Parenthesized(<<ResolvedPath(PB)>>, Some(t)) : t \in low \cup {ResolvedPath(PAB)}}

ConstraintsAt(d) ==
    IF d < 0 THEN {}
    ELSE {AssocItemConstraint(None, Equality(tm)) : tm \in TermsAt(d)}
         \cup {AssocItemConstraint(None, Constraint(bs)) :
                    bs \in Lists(BoundsAt(-1), SmallBounds)}
         \cup {AssocItemConstraint(Some(ga), Equality(TermConstant)) :
                    ga \in GenericArgsAt(d - 1)}

ParamDefsAt(d) ==
    {GenericParamDef(KindLifetime)}
    \cup {GenericParamDef(KindType(bs, None)) : bs \in Lists(BoundsAt(d), SmallBounds)}
    \cup {GenericParamDef(KindType(SmallBounds, Some(t))) : t \in TypesAt(d)}
    \cup {GenericParamDef(KindConst(t)) : t \in TypesAt(d)}

WherePredicatesAt(d) ==
    {LifetimePredicate}
    \cup {BoundPredicate(t, SmallBounds, <<>>) : t \in TypesAt(d)}
    \cup {BoundPredicate(Generic, bs, gps) :
               bs \in Lists(BoundsAt(d), SmallBounds),
               gps \in {<<>>, SmallParams}}
    \cup {EqPredicate(ResolvedPath(PB), tm) : tm \in TermsAt(d + 1)}

GenericsAt(d) ==
    {Generics(ps, <<>>) : ps \in Lists(ParamDefsAt(d), SmallParams)}
    \cup {Generics(<<>>, ws) : ws \in Lists(WherePredicatesAt(d), SmallPreds)}
    \cup {Generics(SmallParams, SmallPreds)}

Function(sig, g) ==
    [tag |-> "Function", val |-> [tag |-> "Function", sig |-> sig, generics |-> g]]
Struct(kind, g) ==
    [tag |-> "Struct",
     val |-> [tag |-> "Struct", kind |-> [tag |-> kind], generics |-> g, impls |-> <<4>>]]
StructField(t) == [tag |-> "StructField", val |-> t]
AssocType(g, bs, t) == [tag |-> "AssocType", generics |-> g, bounds |-> bs, type_ |-> t]
AssocConst(t) == [tag |-> "AssocConst", type_ |-> t]
Impl(g, tr, for_, blanket) ==
    [tag |-> "Impl",
     val |-> [tag |-> "Impl", generics |-> g, trait_ |-> tr, for_ |-> for_,
              items |-> <<5>>, blanket_impl |-> blanket]]
TypeAlias(t, g) ==
    [tag |-> "TypeAlias", val |-> [tag |-> "TypeAlias", type_ |-> t, generics |-> g]]
Union(g) == [tag |-> "Union", val |-> [tag |-> "Union", generics |-> g, impls |-> <<4>>]]
Enum(g) == [tag |-> "Enum", val |-> [tag |-> "Enum", generics |-> g, impls |-> <<4>>]]
Trait(g, bs) ==
    [tag |-> "Trait",
     val |-> [tag |-> "Trait", generics |-> g, bounds |-> bs, items |-> <<5>>]]
TraitAlias(g, ps) ==
    [tag |-> "TraitAlias", val |-> [tag |-> "TraitAlias", generics |-> g, params |-> ps]]
Constant(t) == [tag |-> "Constant", type_ |-> t]
Static(t) == [tag |-> "Static", val |-> [tag |-> "Static", type_ |-> t]]
Use(source) ==
    [tag |-> "Use",
     val |-> [tag |-> "Use", source |-> source, name |-> "B", id |-> 2, is_glob |-> FALSE]]

InertKinds == {"Module", "Variant", "ExternCrate", "Primitive", "ProcMacro", "Macro"}

NoGenerics == Generics(<<>>, <<>>)
SmallGenerics == {NoGenerics, Generics(SmallParams, SmallPreds)}

ItemEnums(d) ==
    LET T == TypesAt(d)
        G == GenericsAt(d - 1)
        P == PathsAt(d)
    IN {Function(FunctionSignature(ins, None), NoGenerics) : ins \in Lists(T, SmallTypes)}
       \cup {Function(FunctionSignature(SmallTypes, Some(t)), NoGenerics) : t \in T}
       \cup {Function(FunctionSignature(SmallTypes, Some(ResolvedPath(PAB))), g) :
                  g \in GenericsAt(Shallow(d) - 1) \cup SmallGenerics}
       \cup {Struct(k, g) : k \in {"Unit", "Tuple", "Plain"}, g \in SmallGenerics}
       \cup {StructField(t) : t \in T}
       \cup {AssocType(g, SmallBounds, Some(ResolvedPath(PAB))) : g \in SmallGenerics}
       \cup {AssocType(NoGenerics, bs, None) : bs \in Lists(BoundsAt(0), SmallBounds)}
       \cup {AssocConst(t) : t \in Range(SmallTypes)}
       \cup {Impl(g, None, Primitive, None) : g \in G}
       \cup {Impl(g, Some(p), ResolvedPath(PB), None) : g \in SmallGenerics, p \in P}
       \cup {Impl(g, tr, t, None) : g \in SmallGenerics, tr \in {None, Some(PAB)}, t \in TypesAt(0)}
       \cup {Impl(g, tr, t, Some(b)) :
                  g \in SmallGenerics, tr \in {None, Some(PAB)}, t \in TypesAt(0),
                  b \in {Generic, ResolvedPath(PB)}}
       \cup {TypeAlias(t, g) : t \in Range(SmallTypes), g \in SmallGenerics}
       \cup {Union(g) : g \in SmallGenerics}
       \cup {Enum(g) : g \in SmallGenerics}
       \cup {Trait(g, SmallBounds) : g \in SmallGenerics}
       \cup {Trait(NoGenerics, bs) : bs \in Lists(BoundsAt(d), SmallBounds)}
       \cup {TraitAlias(g, SmallBounds) : g \in SmallGenerics}
       \cup {TraitAlias(NoGenerics, <<b>>) : b \in BoundsAt(0)}
       \cup {Constant(t) : t \in Range(SmallTypes)}
       \cup {Static(t) : t \in Range(SmallTypes)}
       \cup {Use(src) : src \in {"a::B", "a::*"}}
       \cup {[tag |-> k] : k \in InertKinds}
       \cup {[tag |-> "ExternType"]}

Items == {Item(inner) : inner \in ItemEnums(MaxDepth)}

-----------------------------------------------------------------------------
(* The state machine. *)

Init ==
    /\ root \in Items
    /\ stack = <<Call("visit_item", <<>>)>>
    /\ calls = <<>>
    /\ status = "running"

(* The call on top of the stack is a call of fn. *)
Pending(fn) ==
    /\ status = "running"
    /\ stack # <<>>
    /\ Head(stack).fn = fn

(* the node and the position the pending call is made on *)
Node == At(root, Head(stack).pos)
Pos == Head(stack).pos

(* Execute the pending call: replace its frame by the calls its body      *)
(* makes; the outermost call returns when nothing is pending.              *)
Exec(body) ==
    /\ stack' = body \o Tail(stack)
    /\ status' = IF stack' = <<>> THEN "returned" ELSE "running"
    /\ UNCHANGED <<root, calls>>

(* A hook of the Visitor is called: the call is the observable effect. *)
Hook(name) ==
    /\ calls' = Append(calls, [hook |-> name, pos |-> Head(stack).pos])
    /\ stack' = Tail(stack)
    /\ status' = IF stack' = <<>> THEN "returned" ELSE "running"
    /\ UNCHANGED root

VisitorVisitPath ==
    /\ Pending("Visitor::visit_path")
    /\ Hook("visit_path")

VisitorVisitUse ==
    /\ Pending("Visitor::visit_use")
    /\ Hook("visit_use")

(* faulty variant: the unsupported kind is skipped like the inert kinds *)
TodoSkipped ==
    /\ Pending("todo!")
    /\ stack' = Tail(stack)
    /\ status' = IF stack' = <<>> THEN "returned" ELSE "running"
    /\ UNCHANGED <<root, calls>>

(* todo!() panics: the stack unwinds and visit_item does not return *)
Todo ==
    /\ Pending("todo!")
    /\ status' = "panicked"
    /\ stack' = <<>>
    /\ UNCHANGED <<root, calls>>

(* faulty variant: a Use item is ignored like the inert kinds *)
visit_item_use_ignored(item, pos) ==
    IF item.inner.tag = "Use" THEN <<>> ELSE visit_item(item, pos)

VisitItemUseIgnored ==
    /\ Pending("visit_item")
    /\ Exec(visit_item_use_ignored(Node, Pos))

(* faulty variant: the inert kinds are unsupported like ExternType *)
visit_item_inert_todo(item, pos) ==
    IF item.inner.tag \in InertKinds THEN <<Call("todo!", pos \o <<"inner">>)>>
    ELSE visit_item(item, pos)

VisitItemInertTodo ==
    /\ Pending("visit_item")
    /\ Exec(visit_item_inert_todo(Node, Pos))

VisitItem ==
    /\ Pending("visit_item")
    /\ Exec(visit_item(Node, Pos))
VisitStatic ==
    /\ Pending("visit_static")
    /\ Exec(visit_static(Node, Pos))
VisitTraitAlias ==
    /\ Pending("visit_trait_alias")
    /\ Exec(visit_trait_alias(Node, Pos))
VisitTrait ==
    /\ Pending("visit_trait")
    /\ Exec(visit_trait(Node, Pos))
VisitEnum ==
    /\ Pending("visit_enum")
    /\ Exec(visit_enum(Node, Pos))
VisitUnion ==
    /\ Pending("visit_union")
    /\ Exec(visit_union(Node, Pos))
VisitImpl ==
    /\ Pending("visit_impl")
    /\ Exec(visit_impl(Node, Pos))
VisitTypeAlias ==
    /\ Pending("visit_type_alias")
    /\ Exec(visit_type_alias(Node, Pos))
VisitStruct ==
    /\ Pending("visit_struct")
    /\ Exec(visit_struct(Node, Pos))
VisitStructKind ==
    /\ Pending("visit_struct_kind")
    /\ Exec(visit_struct_kind(Node, Pos))
VisitFunction ==
    /\ Pending("visit_function")
    /\ Exec(visit_function(Node, Pos))
VisitFnSig ==
    /\ Pending("visit_fn_sig")
    /\ Exec(visit_fn_sig(Node, Pos))
VisitGenerics ==
    /\ Pending("visit_generics")
    /\ Exec(visit_generics(Node, Pos))
VisitGenericParamDef ==
    /\ Pending("visit_generic_param_def")
    /\ Exec(visit_generic_param_def(Node, Pos))
VisitWherePredicate ==
    /\ Pending("visit_where_predicate")
    /\ Exec(visit_where_predicate(Node, Pos))
VisitGenericParamDefKind ==
    /\ Pending("visit_generic_param_def_kind")
    /\ Exec(visit_generic_param_def_kind(Node, Pos))
VisitGenericBound ==
    /\ Pending("visit_generic_bound")
    /\ Exec(visit_generic_bound(Node, Pos))
VisitTerm ==
    /\ Pending("visit_term")
    /\ Exec(visit_term(Node, Pos))
VisitPath ==
    /\ Pending("visit_path")
    /\ Exec(visit_path(Node, Pos))
VisitGenericArgs ==
    /\ Pending("visit_generic_args")
    /\ Exec(visit_generic_args(Node, Pos))
VisitAssocItemConstraint ==
    /\ Pending("visit_assoc_item_constraint")
    /\ Exec(visit_assoc_item_constraint(Node, Pos))
VisitAssocItemConstraintKind ==
    /\ Pending("visit_assoc_item_constraint_kind")
    /\ Exec(visit_assoc_item_constraint_kind(Node, Pos))
VisitGenericArg ==
    /\ Pending("visit_generic_arg")
    /\ Exec(visit_generic_arg(Node, Pos))
(* faulty variant: a reference type is walked again instead of its referent *)
visit_type_ref_again(type_, pos) ==
    IF type_.tag = "BorrowedRef" THEN <<Call("visit_type", pos)>>
    ELSE visit_type(type_, pos)

VisitTypeRefAgain ==
    /\ Pending("visit_type")
    /\ Exec(visit_type_ref_again(Node, Pos))

VisitType ==
    /\ Pending("visit_type")
    /\ Exec(visit_type(Node, Pos))
VisitFunctionPointer ==
    /\ Pending("visit_function_pointer")
    /\ Exec(visit_function_pointer(Node, Pos))
VisitDynTrait ==
    /\ Pending("visit_dyn_trait")
    /\ Exec(visit_dyn_trait(Node, Pos))
VisitPolyTrait ==
    /\ Pending("visit_poly_trait")
    /\ Exec(visit_poly_trait(Node, Pos))

Next ==
    \/ VisitItem
    \/ VisitStatic
    \/ VisitTraitAlias
    \/ VisitTrait
    \/ VisitEnum
    \/ VisitUnion
    \/ VisitImpl
    \/ VisitTypeAlias
    \/ VisitStruct
    \/ VisitStructKind
    \/ VisitFunction
    \/ VisitFnSig
    \/ VisitGenerics
    \/ VisitGenericParamDef
    \/ VisitWherePredicate
    \/ VisitGenericParamDefKind
    \/ VisitGenericBound
    \/ VisitTerm
    \/ VisitPath
    \/ VisitGenericArgs
    \/ VisitAssocItemConstraint
    \/ VisitAssocItemConstraintKind
    \/ VisitGenericArg
    \/ VisitType
    \/ VisitFunctionPointer
    \/ VisitDynTrait
    \/ VisitPolyTrait
    \/ VisitorVisitPath
    \/ VisitorVisitUse
    \/ Todo

Spec == Init /\ [][Next]_vars

(* The walk is one synchronous thread: a pending call is always executed. *)
FairSpec == Spec /\ WF_vars(Next)

-----------------------------------------------------------------------------
(* Notions the properties are stated with. *)

IsStrictPrefix(p, q) == Len(p) < Len(q) /\ SubSeq(q, 1, Len(p)) = p

IsPrefix(p, q) == Len(p) <= Len(q) /\ SubSeq(q, 1, Len(p)) = p

(* Positions of the Path nodes below node n (itself at position pos),     *)
(* found by following every inline child, whatever its type; the content  *)
(* of an Impl whose blanket_impl is set is left out.                       *)
RECURSIVE PathNodes(_, _)
PathNodes(n, pos) ==
    IF n.tag = "Impl" /\ "blanket_impl" \in DOMAIN n /\ n.blanket_impl.tag = "Some"
    THEN {}
    ELSE (IF n.tag = "Path" THEN {pos} ELSE {})
         \cup UNION {IF IsList(n, k)
                      THEN UNION {PathNodes(n[k][i], pos \o <<k, IdxKey(i)>>) :
                                     i \in DOMAIN n[k]}
                      ELSE PathNodes(n[k], pos \o <<k>>) :
                      k \in DOMAIN n \ ScalarKeys}

PathCalls == SelectSeq(calls, LAMBDA c : c.hook = "visit_path")

RootKind == root.inner.tag

(* C1: when visit_item has returned, the visit_path calls are exactly the *)
(* Path nodes reachable from the root item through its inline children    *)
(* (outside a blanket impl), each reported exactly once: as many calls as *)
(* Path nodes, and every Path node's position among the calls.            *)
C1_EachPathOnce ==
    status = "returned" =>
        /\ Len(PathCalls) = Cardinality(PathNodes(root, <<>>))
        /\ {PathCalls[i].pos : i \in DOMAIN PathCalls} = PathNodes(root, <<>>)

(* the walk has returned after reporting the same path at two places *)
C1_Witness ==
    /\ status = "returned"
    /\ \E i, j \in DOMAIN calls :
          /\ i # j
          /\ calls[i].hook = "visit_path"
          /\ calls[j].hook = "visit_path"
          /\ At(root, calls[i].pos) = At(root, calls[j].pos)

(* C2: pre-order.  In every state, a hook call made below a Path node P   *)
(* (that is, from walking P's generic arguments, at any depth) is         *)
(* preceded in the call sequence by the visit_path call for P.            *)
C2_PreOrder ==
    \A j \in DOMAIN calls :
        \A p \in PathNodes(root, <<>>) :
            IsStrictPrefix(p, calls[j].pos) =>
                \E i \in 1..(j - 1) : calls[i].hook = "visit_path" /\ calls[i].pos = p

(* three paths nested in one another have been reported *)
C2_Witness ==
    \E i, j, k \in DOMAIN calls :
        /\ IsStrictPrefix(calls[i].pos, calls[j].pos)
        /\ IsStrictPrefix(calls[j].pos, calls[k].pos)

IsBlanketImpl == RootKind = "Impl" /\ root.inner.val.blanket_impl.tag = "Some"

(* C3: for an Impl item whose blanket_impl is set no hook is ever called, *)
(* and nothing but visit_item and visit_impl is ever called: the check    *)
(* comes before generics, trait path and self type are walked.            *)
C3_BlanketImplSilent ==
    IsBlanketImpl =>
        /\ calls = <<>>
        /\ status # "panicked"
        /\ \A k \in DOMAIN stack : stack[k].fn \in {"visit_item", "visit_impl"}

(* a blanket impl with generics, a trait path and a path self type has been walked *)
C3_Witness ==
    /\ IsBlanketImpl
    /\ status = "returned"
    /\ root.inner.val.generics.params # <<>>
    /\ root.inner.val.trait_.tag = "Some"
    /\ root.inner.val.for_.tag = "ResolvedPath"

(* the slot of a signature a position lies in: the index of the input, or *)
(* one past the inputs for the output; k is the index of "sig" in pos     *)
SigSlot(pos, k) ==
    IF pos[k + 1] = "inputs" THEN Idx(pos[k + 2])
    ELSE Len(At(root, SubSeq(pos, 1, k)).inputs) + 1

(* C4: the hook calls made from one signature (of a function item or of a *)
(* function pointer) come in declaration order: all from the first input, *)
(* then all from the second, ..., then all from the output.               *)
C4_SignatureOrder ==
    \A i, j \in DOMAIN calls :
        i < j =>
            \A k \in 1..Len(calls[i].pos) :
                (/\ calls[i].pos[k] = "sig"
                 /\ k <= Len(calls[j].pos)
                 /\ SubSeq(calls[j].pos, 1, k) = SubSeq(calls[i].pos, 1, k))
                => SigSlot(calls[i].pos, k) <= SigSlot(calls[j].pos, k)

SigPos == <<"inner", "val", "sig">>

(* a function item with two inputs and an output has been walked, the    *)
(* first input giving two calls, the second input and the output one each *)
C4_Witness ==
    /\ RootKind = "Function"
    /\ status = "returned"
    /\ Len(root.inner.val.sig.inputs) >= 2
    /\ \E a, b, c, e \in DOMAIN calls :
          /\ a < b /\ b < c /\ c < e
          /\ IsPrefix(SigPos \o <<"inputs", "1">>, calls[a].pos)
          /\ IsPrefix(SigPos \o <<"inputs", "1">>, calls[b].pos)
          /\ IsPrefix(SigPos \o <<"inputs", "2">>, calls[c].pos)
          /\ IsPrefix(SigPos \o <<"output">>, calls[e].pos)

InherentPrimitiveImpl ==
    /\ RootKind = "Impl"
    /\ root.inner.val.trait_.tag = "None"
    /\ root.inner.val.blanket_impl.tag = "None"
    /\ root.inner.val.for_.tag = "Primitive"

GenericsPos == <<"inner", "val", "generics">>

C7_UseReportedOnce ==
    RootKind = "Use" =>
        /\ Len(calls) <= 1
        /\ \A i \in DOMAIN calls :
              /\ calls[i].hook = "visit_use"
              /\ calls[i].pos = <<"inner", "val">>
              /\ At(root, calls[i].pos) = root.inner.val
        /\ status = "returned" => Len(calls) = 1
        /\ status # "panicked"

(* the walk of a Use item has returned *)
C7_Witness == RootKind = "Use" /\ status = "returned"

(* C8: for an item of an inert kind visit_item returns at once, without   *)
(* panicking, calling no hook and no walker.                              *)
C8_InertSilent ==
    RootKind \in InertKinds =>
        /\ calls = <<>>
        /\ status # "panicked"
        /\ status = "running" => stack = <<Call("visit_item", <<>>)>>
        /\ status = "returned" => stack = <<>>

(* the walk of an inert item has returned *)
C8_Witness == RootKind \in InertKinds /\ status = "returned"

IsWalker(fn) == fn \notin {"Visitor::visit_path", "Visitor::visit_use", "todo!"}

(* every step keeps the pending calls below the executed one and makes    *)
(* its walker calls on nodes strictly below the node of the executed call *)
CallsOnChildren ==
    stack # <<>> =>
        /\ Len(stack') >= Len(stack) - 1
        /\ LET new == Len(stack') - (Len(stack) - 1) IN
              /\ SubSeq(stack', new + 1, Len(stack')) = Tail(stack)
              /\ \A k \in 1..new :
                    IsWalker(stack'[k].fn) =>
                        IsStrictPrefix(Head(stack).pos, stack'[k].pos)

(* C9: for a root item of any kind but ExternType, visit_item eventually  *)
(* returns, and every step calls walkers only on strict structural        *)
(* children of the node being walked (positions inside the root item).    *)
C9_Terminates ==
    /\ (RootKind # "ExternType") ~> (status = "returned")
    /\ [][CallsOnChildren]_vars

(* a walk that went through nested paths has returned *)
C9_Witness ==
    /\ status = "returned"
    /\ \E i, j \in DOMAIN calls : IsStrictPrefix(calls[i].pos, calls[j].pos)

(* the pending call walks a lifetime or constant leaf *)
PendingLeaf ==
    /\ stack # <<>>
    /\ LET fn == Head(stack).fn
           tag == At(root, Head(stack).pos).tag
       IN \/ fn = "visit_generic_arg" /\ tag \in {"Lifetime", "Const", "Infer"}
          \/ fn = "visit_generic_bound" /\ tag \in {"Outlives", "Use"}
          \/ fn = "visit_where_predicate" /\ tag = "LifetimePredicate"
          \/ fn = "visit_generic_param_def_kind" /\ tag = "Lifetime"
          \/ fn = "visit_term" /\ tag = "Constant"

(* the pending call walks the kind of a const generic parameter *)
PendingConstParam ==
    /\ stack # <<>>
    /\ Head(stack).fn = "visit_generic_param_def_kind"
    /\ At(root, Head(stack).pos).tag = "Const"

(* C10: walking a lifetime, constant or inferred generic argument, an     *)
(* outlives or use bound, a lifetime where-predicate, a lifetime generic  *)
(* parameter or a constant term calls no hook and no walker; walking a    *)
(* const generic parameter calls no hook itself and walks its type only.  *)
C10_LeavesSilent ==
    [][/\ PendingLeaf => (calls' = calls /\ stack' = Tail(stack))
       /\ PendingConstParam =>
             /\ calls' = calls
             /\ stack' = <<Call("visit_type", Head(stack).pos \o <<"type_">>)>>
                            \o Tail(stack)]_vars

(* a const generic parameter whose type holds a path has been walked, and *)
(* so has a lifetime generic argument                                     *)
C10_Witness ==
    /\ status = "returned"
    /\ \E i \in DOMAIN calls :
          \E k \in 1..(Len(calls[i].pos) - 1) :
             /\ calls[i].pos[k] = "kind"
             /\ calls[i].pos[k + 1] = "type_"
    /\ \E p \in PathNodes(root, <<>>) :
          /\ At(root, p).args.tag = "Some"
          /\ At(root, p).args.val.tag = "AngleBracketed"
          /\ \E a \in DOMAIN At(root, p).args.val.args :
                At(root, p).args.val.args[a].tag = "Lifetime"

====
